---- MODULE Spec2Model ----
(***************************************************************************)
(* A model of pv (src/main.rs): the copy loop PipeView::pipeview and the   *)
(* template construction of PipeView::progress_from_options.               *)
(*                                                                         *)
(* Spec          the copy loop, one step per call it makes (read,          *)
(*               write_all, progress.inc, written +=), the source and the  *)
(*               sink being the environment.                               *)
(* SpecTemplate  progress_from_options applied to every combination of     *)
(*               its seven arguments.                                      *)
(***************************************************************************)
EXTENDS Integers, Sequences, FiniteSets, TLC

VARIABLES
    \* ---- PipeView fields (main.rs 63-70) and the locals of pipeview ----
    input,                \* the bytes the source delivers before its zero-length read
    failing,              \* TRUE for a source every read of which fails
    pos,                  \* how many bytes of input the source has delivered so far
    line_mode,            \* PipeView.line_mode
    skip_input_errors,    \* PipeView.skip_input_errors
    skip_output_errors,   \* PipeView.skip_output_errors
    buf,                  \* buf[..len] of the last successful read
    written,              \* the local `written`
    sink,                 \* the bytes the sink has accepted so far
    progress,             \* the position of the ProgressBar (sum of the inc amounts)
    pc,                   \* where pipeview is: "read", "write", "inc", "add", "done"
    result,               \* what pipeview returned
    \* ---- history of the run ----
    reads,                \* successful non-empty reads
    advances,             \* calls of progress.inc
    interrupts,           \* reads that failed with ErrorKind::Interrupted
    readErrs,             \* reads that failed with another error
    writeErrs,            \* write_all calls that failed
    lost,                 \* bytes of the chunks whose write_all failed
    chunkLog,             \* per write_all call: the chunk and how much of it
                          \* the sink took
    last,                 \* the call made by the latest step
    \* ---- progress_from_options ----
    opts,                 \* the seven arguments
    bar,                  \* the ProgressBar returned
    tpc                   \* "call" before progress_from_options ran, "built" after;
                          \* "idle" where the display is left out

vars == <<input, failing, chunkLog, pos, line_mode, skip_input_errors, skip_output_errors, buf,
          written, sink, progress, pc, result, reads, advances, interrupts,
          readErrs, writeErrs, lost, last, opts, bar, tpc>>

pvVars == <<input, failing, chunkLog, pos, line_mode, skip_input_errors, skip_output_errors, buf,
            written, sink, progress, pc, result, reads, advances, interrupts,
            readErrs, writeErrs, lost, last>>

tplVars == <<opts, bar, tpc>>

----------------------------------------------------------------------------
(* Bounds *)

MaxLen == 3           \* longest input stream
MaxInterrupts == 2    \* most interrupted reads in one run
MaxReadErrs == 2      \* most other read errors in one run
MaxWriteErrs == 2     \* most failed write_all calls in one run

(* Program constants *)

DEFAULT_BUF_SIZE == 65536

\* The bytes of the model's streams: the two delimiters main can configure
\* (10, and 0 under --null), each of them an ordinary byte where the other is
\* the delimiter.
Bytes == {0, 10}

Byte == [kind |-> "Byte", delim |-> 0]
Line(d) == [kind |-> "Line", delim |-> d]
LineModes == {Byte} \cup {Line(d) : d \in Bytes}

None == [tag |-> "None", val |-> 0]
Some(x) == [tag |-> "Some", val |-> x]

Pending == [tag |-> "Pending", total |-> 0, cause |-> "none"]
Ok(n) == [tag |-> "Ok", total |-> n, cause |-> "none"]
Err(c) == [tag |-> "Err", total |-> 0, cause |-> c]

Min(a, b) == IF a < b THEN a ELSE b

RECURSIVE SeqsUpTo(_)
SeqsUpTo(n) ==
    IF n = 0 THEN {<<>>}
    ELSE LET S == SeqsUpTo(n - 1)
         IN  S \cup {Append(s, b) : s \in {t \in S : Len(t) = n - 1}, b \in Bytes}

\* buf[..len].iter().filter(|b| **b == delim).count()
RECURSIVE CountDelim(_, _)
CountDelim(s, delim) ==
    IF s = <<>> THEN 0
    ELSE (IF Head(s) = delim THEN 1 ELSE 0) + CountDelim(Tail(s), delim)

----------------------------------------------------------------------------
(* progress_from_options *)

Widths == {0, 7, 40, 120}     \* the widths tried, besides no width
Totals == {0, 100}            \* the estimated sizes tried, besides none

Options ==
    [len : {None} \cup {Some(x) : x \in Totals},
     show_timer : BOOLEAN,
     width : {None} \cup {Some(x) : x \in Widths},
     show_bytes : BOOLEAN,
     show_eta : BOOLEAN,
     show_rate : BOOLEAN,
     line_mode : BOOLEAN]

Digit(d) == CASE d = 0 -> "0" [] d = 1 -> "1" [] d = 2 -> "2" [] d = 3 -> "3"
              [] d = 4 -> "4" [] d = 5 -> "5" [] d = 6 -> "6" [] d = 7 -> "7"
              [] d = 8 -> "8" [] d = 9 -> "9"

\* the Display of an unsigned integer, as format!("{}", x) writes it
RECURSIVE Decimal(_)
Decimal(n) == IF n < 10 THEN Digit(n) ELSE Decimal(n \div 10) \o Digit(n % 10)

\* template.join(sep)
RECURSIVE Join(_, _)
Join(segs, sep) ==
    IF segs = <<>> THEN ""
    ELSE IF Len(segs) = 1 THEN segs[1]
    ELSE segs[1] \o sep \o Join(Tail(segs), sep)

\* the line-mode triple keeps the byte rate
Names_MixedRate(lm) ==
    IF lm THEN [pos_name |-> "{pos}", len_name |-> "{len}",
                per_sec_name |-> "{bytes_per_sec}"]
    ELSE [pos_name |-> "{bytes}", len_name |-> "{total_bytes}",
          per_sec_name |-> "{bytes_per_sec}"]

\* let (pos_name, len_name, per_sec_name) = if line_mode { .. } else { .. }
Names(lm) ==
    IF lm THEN [pos_name |-> "{pos}", len_name |-> "{len}", per_sec_name |-> "{per_sec}"]
    ELSE [pos_name |-> "{bytes}", len_name |-> "{total_bytes}",
          per_sec_name |-> "{bytes_per_sec}"]

\* the width dropped
BarSegment_IgnoresWidth(width) == "{wide_bar} {percent}"

\* match width { Some(x) => format!("{{bar:{}}} {{percent}}", x), None => .. }
BarSegment(width) ==
    IF width.tag = "Some" THEN "{bar:" \o Decimal(width.val) \o "} {percent}"
    ELSE "{wide_bar} {percent}"

\* the rate pushed before the amount
Segments_RateFirst(o) ==
    LET n == Names(o.line_mode)
        t1 == IF o.show_timer THEN <<"{elapsed_precise}">> ELSE <<>>
        t2 == Append(t1, BarSegment(o.width))
        t3 == IF o.show_rate THEN Append(t2, n.per_sec_name) ELSE t2
        t4 == IF o.show_bytes /\ o.len.tag = "Some"
              THEN Append(t3, n.pos_name \o "/" \o n.len_name)
              ELSE IF o.show_bytes THEN Append(t3, n.pos_name)
              ELSE t3
        t5 == IF o.show_eta THEN Append(t4, "{eta_precise}") ELSE t4
    IN  t5

\* the total pushed with the position whether or not len is there
Segments_TotalAlways(o) ==
    LET n == Names(o.line_mode)
        t1 == IF o.show_timer THEN <<"{elapsed_precise}">> ELSE <<>>
        t2 == Append(t1, BarSegment(o.width))
        t3 == IF o.show_bytes
              THEN Append(t2, n.pos_name \o "/" \o n.len_name)
              ELSE t2
        t4 == IF o.show_rate THEN Append(t3, n.per_sec_name) ELSE t3
        t5 == IF o.show_eta THEN Append(t4, "{eta_precise}") ELSE t4
    IN  t5

\* the vector `template` after the pushes of lines 84-114
Segments(o) ==
    LET n == Names(o.line_mode)
        t1 == IF o.show_timer THEN <<"{elapsed_precise}">> ELSE <<>>
        t2 == Append(t1, BarSegment(o.width))
        t3 == IF o.show_bytes /\ o.len.tag = "Some"
              THEN Append(t2, n.pos_name \o "/" \o n.len_name)
              ELSE IF o.show_bytes THEN Append(t2, n.pos_name)
              ELSE t2
        t4 == IF o.show_rate THEN Append(t3, n.per_sec_name) ELSE t3
        t5 == IF o.show_eta THEN Append(t4, "{eta_precise}") ELSE t4
    IN  t5

\* format!("{{elapsed}} {{wide_bar}} {{percent}} {}/{} {} {{eta}}", ..)
DefaultTemplate(n) ==
    "{elapsed} {wide_bar} {percent} " \o n.pos_name \o "/" \o n.len_name
        \o " " \o n.per_sec_name \o " {eta}"

\* the override for "nothing requested" left out
StyleTemplate_NoDefault(o) == Join(Segments(o), " ")

\* if !(show_timer || show_bytes || show_rate || show_eta) { .. } else { .. }
StyleTemplate(o) ==
    IF ~(o.show_timer \/ o.show_bytes \/ o.show_rate \/ o.show_eta)
    THEN DefaultTemplate(Names(o.line_mode))
    ELSE Join(Segments(o), " ")

\* let mut style = match len { Some(_x) => default_bar(), None => default_spinner() }
StyleKind(o) == IF o.len.tag = "Some" THEN "default_bar" ELSE "default_spinner"

\* the counter chosen by the width
CounterKind_ByWidth(o) == IF o.width.tag = "Some" THEN "new" ELSE "new_spinner"

\* let progress = match len { Some(x) => ProgressBar::new(x), None => new_spinner() }
CounterKind(o) == IF o.len.tag = "Some" THEN "new" ELSE "new_spinner"

\* the ProgressBar returned: its style, the style's template, its constructor
\* and its length
progress_from_options(o) ==
    [tag |-> "Some", val |-> 0,
     style |-> StyleKind(o),
     template |-> StyleTemplate(o),
     counter |-> CounterKind(o),
     length |-> o.len]

NoBar == [tag |-> "None", val |-> 0, style |-> "", template |-> "",
          counter |-> "", length |-> None]

TplInit ==
    /\ opts \in Options
    /\ bar = NoBar
    /\ tpc = "call"

\* main calls progress_from_options once, while it builds the PipeView
ProgressFromOptions ==
    /\ tpc = "call"
    /\ bar' = progress_from_options(opts)
    /\ tpc' = "built"
    /\ opts' = opts

\* the display plays no part in the copy loop
NoOptions ==
    [len |-> None, show_timer |-> FALSE, width |-> None, show_bytes |-> FALSE,
     show_eta |-> FALSE, show_rate |-> FALSE, line_mode |-> FALSE]

TplIdle == opts = NoOptions /\ bar = NoBar /\ tpc = "idle"

----------------------------------------------------------------------------
(* pipeview *)

PvInit ==
    /\ input \in SeqsUpTo(MaxLen)
    /\ failing \in BOOLEAN
    /\ chunkLog = <<>>
    /\ line_mode \in LineModes
    /\ skip_input_errors \in BOOLEAN
    /\ skip_output_errors \in BOOLEAN
    /\ pos = 0
    /\ buf = <<>>
    /\ written = 0
    /\ sink = <<>>
    /\ progress = 0
    /\ pc = "read"
    /\ result = Pending
    /\ reads = 0 /\ advances = 0 /\ interrupts = 0
    /\ readErrs = 0 /\ writeErrs = 0 /\ lost = 0
    /\ last = "start"

\* Ok(0) taken for one more empty chunk: continue
ReadEof_Continue ==
    /\ pc = "read"
    /\ ~failing
    /\ pos = Len(input)
    /\ pc' = "read"
    /\ result' = result
    /\ last' = "read_eof"
    /\ UNCHANGED <<input, failing, chunkLog, pos, line_mode, skip_input_errors,
                   skip_output_errors, buf, written, sink, progress, reads,
                   advances, interrupts, readErrs, writeErrs, lost>>

\* self.source.read(&mut buf) returns Ok(0): return Ok(written)
ReadEof ==
    /\ pc = "read"
    /\ ~failing
    /\ pos = Len(input)
    /\ pc' = "done"
    /\ result' = Ok(written)
    /\ last' = "read_eof"
    /\ UNCHANGED <<input, failing, chunkLog, pos, line_mode, skip_input_errors, skip_output_errors,
                   buf, written, sink, progress, reads, advances, interrupts,
                   readErrs, writeErrs, lost>>

\* self.source.read(&mut buf) returns Ok(len), len > 0: the source chooses
\* how much of what is left it delivers, at most the buffer's size
ReadChunk ==
    /\ pc = "read"
    /\ ~failing
    /\ \E n \in 1..Min(DEFAULT_BUF_SIZE, Len(input) - pos) :
          /\ buf' = SubSeq(input, pos + 1, pos + n)
          /\ pos' = pos + n
    /\ pc' = "write"
    /\ reads' = reads + 1
    /\ last' = "read_ok"
    /\ UNCHANGED <<input, failing, chunkLog, line_mode, skip_input_errors, skip_output_errors,
                   written, sink, progress, result, advances, interrupts,
                   readErrs, writeErrs, lost>>

\* an interruption handled like any other read error
ReadInterrupted_AsError ==
    /\ pc = "read"
    /\ ~failing
    /\ interrupts < MaxInterrupts
    /\ interrupts' = interrupts + 1
    /\ last' = "read_interrupted"
    /\ IF skip_input_errors
       THEN pc' = "read" /\ result' = result
       ELSE pc' = "done" /\ result' = Err("read")
    /\ UNCHANGED <<input, failing, chunkLog, pos, line_mode, skip_input_errors, skip_output_errors,
                   buf, written, sink, progress, reads, advances,
                   readErrs, writeErrs, lost>>

\* Err(ref e) if e.kind() == ErrorKind::Interrupted => continue
ReadInterrupted ==
    /\ pc = "read"
    /\ ~failing
    /\ interrupts < MaxInterrupts
    /\ interrupts' = interrupts + 1
    /\ pc' = "read"
    /\ last' = "read_interrupted"
    /\ UNCHANGED <<input, failing, chunkLog, pos, line_mode, skip_input_errors, skip_output_errors,
                   buf, written, sink, progress, result, reads, advances,
                   readErrs, writeErrs, lost>>

\* a read fails with an error other than Interrupted, `skip` deciding
\* between the two arms; a failing source goes on failing, the count of its
\* errors stopping at MaxReadErrs
\*   Err(_) if self.skip_input_errors => continue
\*   Err(e) => return Err(e.into())
ReadFails(skip) ==
    /\ pc = "read"
    /\ failing \/ readErrs < MaxReadErrs
    /\ readErrs' = Min(readErrs + 1, MaxReadErrs)
    /\ last' = "read_error"
    /\ IF skip
       THEN pc' = "read" /\ result' = result
       ELSE pc' = "done" /\ result' = Err("read")
    /\ UNCHANGED <<input, failing, chunkLog, pos, line_mode, skip_input_errors, skip_output_errors,
                   buf, written, sink, progress, reads, advances, interrupts,
                   writeErrs, lost>>

\* the skip arm left out
ReadError_AlwaysFatal == ReadFails(FALSE)

\* the guard reads the other flag
ReadError_WrongFlag == ReadFails(skip_output_errors)

ReadError == ReadFails(skip_input_errors)

\* `write` in place of `write_all`: a short write goes unnoticed
WriteOk_Short ==
    /\ pc = "write"
    /\ sink' = sink \o SubSeq(buf, 1, Len(buf) - 1)
    /\ chunkLog' = Append(chunkLog, [data |-> buf, took |-> Len(buf)])
    /\ pc' = "inc"
    /\ last' = "write_ok"
    /\ UNCHANGED <<input, failing, pos, line_mode, skip_input_errors, skip_output_errors,
                   buf, written, progress, result, reads, advances, interrupts,
                   readErrs, writeErrs, lost>>

\* self.sink.write_all(&buf[..len]) returns Ok(_)
WriteOk ==
    /\ pc = "write"
    /\ sink' = sink \o buf
    /\ chunkLog' = Append(chunkLog, [data |-> buf, took |-> Len(buf)])
    /\ pc' = "inc"
    /\ last' = "write_ok"
    /\ UNCHANGED <<input, failing, pos, line_mode, skip_input_errors, skip_output_errors,
                   buf, written, progress, result, reads, advances, interrupts,
                   readErrs, writeErrs, lost>>

\* self.sink.write_all(&buf[..len]) returns Err: write_all stops at the first
\* write that fails, so the sink has accepted some proper prefix of the chunk.
\* `skip` decides between the two arms, and a skipped error goes on at `after`.
\*   Err(_) if self.skip_output_errors => continue
\*   Err(e) => return Err(e.into())
WriteFails(skip, after) ==
    /\ pc = "write"
    /\ writeErrs < MaxWriteErrs
    /\ \E k \in 0..(Len(buf) - 1) :
          /\ sink' = sink \o SubSeq(buf, 1, k)
          /\ chunkLog' = Append(chunkLog, [data |-> buf, took |-> k])
    /\ writeErrs' = writeErrs + 1
    /\ lost' = lost + Len(buf)
    /\ last' = "write_error"
    /\ IF skip
       THEN pc' = after /\ result' = result
       ELSE pc' = "done" /\ result' = Err("write")
    /\ UNCHANGED <<input, failing, pos, line_mode, skip_input_errors, skip_output_errors,
                   buf, written, progress, reads, advances, interrupts,
                   readErrs>>

\* a skipped error falls through to the accounting instead of `continue`
WriteError_Counted == WriteFails(skip_output_errors, "inc")

\* a skipped error followed by a second write_all of the same chunk
WriteError_Retried == WriteFails(skip_output_errors, "write")

\* a skipped error jumps over progress.inc only
WriteError_Added == WriteFails(skip_output_errors, "add")

\* the guard reads the other flag
WriteError_WrongFlag == WriteFails(skip_input_errors, "read")

WriteError == WriteFails(skip_output_errors, "read")

\* the delimiters counted in buf[..len - 1]
IncAmount_DropsLast(mode, chunk) ==
    IF mode.kind = "Line"
    THEN CountDelim(SubSeq(chunk, 1, Len(chunk) - 1), mode.delim)
    ELSE Len(chunk)

\* the amount handed to self.progress.inc
IncAmount(mode, chunk) ==
    IF mode.kind = "Line" THEN CountDelim(chunk, mode.delim) ELSE Len(chunk)

\* match self.line_mode { ... self.progress.inc(..) }
Inc ==
    /\ pc = "inc"
    /\ progress' = progress + IncAmount(line_mode, buf)
    /\ advances' = advances + 1
    /\ pc' = "add"
    /\ last' = "inc"
    /\ UNCHANGED <<input, failing, chunkLog, pos, line_mode, skip_input_errors, skip_output_errors,
                   buf, written, sink, result, reads, interrupts, readErrs,
                   writeErrs, lost>>

\* written += buf.len(): the buffer's size, not the chunk's
AddAmount_BufLen(mode, chunk) == DEFAULT_BUF_SIZE

\* written += the amount handed to progress.inc
AddAmount_Units(mode, chunk) == IncAmount(mode, chunk)

\* the amount added to `written`: len as u64
AddAmount(mode, chunk) == Len(chunk)

\* written += len as u64;  (far below 2^64 within the bounds)
Add ==
    /\ pc = "add"
    /\ written' = written + AddAmount(line_mode, buf)
    /\ pc' = "read"
    /\ last' = "add"
    /\ UNCHANGED <<input, failing, chunkLog, pos, line_mode, skip_input_errors, skip_output_errors,
                   buf, sink, progress, result, reads, advances, interrupts,
                   readErrs, writeErrs, lost>>

PvStep ==
    \/ ReadEof
    \/ ReadChunk
    \/ ReadInterrupted
    \/ ReadError
    \/ WriteOk
    \/ WriteError
    \/ Inc
    \/ Add

Init == PvInit /\ TplIdle

Next == PvStep /\ UNCHANGED tplVars

Spec == Init /\ [][Next]_vars

\* pipeview is sequential code and each of its calls returns: while a step
\* is possible one is taken
SpecFair == Spec /\ WF_vars(Next)

\* the copy loop plays no part in progress_from_options
PvIdle ==
    /\ input = <<>> /\ failing = FALSE /\ chunkLog = <<>> /\ line_mode = Byte
    /\ skip_input_errors = FALSE /\ skip_output_errors = FALSE
    /\ pos = 0 /\ buf = <<>> /\ written = 0 /\ sink = <<>> /\ progress = 0
    /\ pc = "idle" /\ result = Pending
    /\ reads = 0 /\ advances = 0 /\ interrupts = 0
    /\ readErrs = 0 /\ writeErrs = 0 /\ lost = 0
    /\ last = "start"

InitTemplate == TplInit /\ PvIdle

NextTemplate == ProgressFromOptions /\ UNCHANGED pvVars

SpecTemplate == InitTemplate /\ [][NextTemplate]_vars

----------------------------------------------------------------------------
(* Properties of pipeview, checked under Spec *)

NoErrors == readErrs = 0 /\ writeErrs = 0

\* C1: byte accounting. A run whose source delivers the input in non-empty
\* chunks and then a zero-length read, with no failing read or write, ends
\* with Ok(total), total being the number of bytes of the input.
C1_ByteTotal ==
    (pc = "done" /\ line_mode.kind = "Byte" /\ NoErrors /\ interrupts = 0)
        => result = Ok(Len(input))

C1_Witness ==
    /\ pc = "done" /\ line_mode.kind = "Byte" /\ NoErrors /\ interrupts = 0
    /\ reads >= 2 /\ result.tag = "Ok" /\ result.total >= 2

IsPrefix(s, t) == Len(s) <= Len(t) /\ s = SubSeq(t, 1, Len(s))

\* C3: pass-through. While no read and no write has failed the sink holds a
\* prefix of the input, and when the loop ends it holds the input itself,
\* whatever the accounting unit and the chunks.
C3_PassThrough ==
    NoErrors => /\ IsPrefix(sink, input)
                /\ pc = "done" => (result.tag = "Ok" /\ sink = input)

C3_Witness ==
    /\ pc = "done" /\ NoErrors /\ reads >= 2 /\ sink = input
    /\ line_mode.kind = "Line" /\ \E i, j \in 1..Len(input) : input[i] # input[j]

C5_SkippedReadRetried ==
    [][(last' = "read_error" /\ skip_input_errors)
         => /\ pc' = "read" /\ result' = Pending
            /\ UNCHANGED <<sink, progress, advances, written, pos>>]_vars

C5_Witness ==
    /\ last = "read_error" /\ skip_input_errors /\ pc = "read"
    /\ 0 < pos /\ pos < Len(input) /\ written > 0

\* C6: without skip_input_errors the first read error other than an
\* interruption ends the loop with an error for that read, whatever
\* skip_output_errors is: nothing is written, advanced or added by that step,
\* no step follows it and no Ok is returned.
C6_ReadErrorFatal ==
    /\ [][(last' = "read_error" /\ ~skip_input_errors)
            => /\ pc' = "done" /\ result' = Err("read")
               /\ UNCHANGED <<sink, progress, advances, written, reads>>]_vars
    /\ []((~skip_input_errors /\ readErrs > 0)
            => (pc = "done" /\ result = Err("read") /\ readErrs = 1))
    /\ [][pc # "done"]_vars

C6_Witness ==
    /\ ~skip_input_errors /\ skip_output_errors /\ readErrs = 1
    /\ pc = "done" /\ result = Err("read") /\ written > 0 /\ writeErrs > 0

\* C7: without skip_output_errors the first write error ends the loop with
\* an error, whatever skip_input_errors is: the failing chunk is not
\* accounted and neither a read nor a write follows.
C7_WriteErrorFatal ==
    /\ [][(last' = "write_error" /\ ~skip_output_errors)
            => /\ pc' = "done" /\ result' = Err("write")
               /\ UNCHANGED <<progress, advances, written, reads, pos>>]_vars
    /\ []((~skip_output_errors /\ writeErrs > 0)
            => /\ pc = "done" /\ result = Err("write") /\ writeErrs = 1
               /\ advances = reads - 1 /\ written = pos - Len(buf))
    /\ [][pc = "done" => UNCHANGED <<pos, sink, reads>>]_vars

C7_Witness ==
    /\ ~skip_output_errors /\ skip_input_errors /\ writeErrs = 1
    /\ pc = "done" /\ result = Err("write") /\ written > 0 /\ readErrs > 0

\* C8: an interrupted read is retried for both values of skip_input_errors:
\* the step returns nothing, writes nothing, advances nothing and leaves the
\* loop where it was, about to read, so the run goes on as the run without
\* the interruption; with no other failure it ends with the same total, the
\* same progress and the same bytes in the sink.
C8_InterruptRetried ==
    /\ [][last' = "read_interrupted"
            => /\ pc' = "read" /\ result' = Pending
               /\ UNCHANGED <<pos, buf, written, sink, progress, advances,
                              reads, readErrs, writeErrs, lost>>]_vars
    /\ []((pc = "done" /\ interrupts > 0 /\ NoErrors)
            => /\ result = Ok(Len(input))
               /\ sink = input
               /\ progress = IncAmount(line_mode, input))

C8_Witness ==
    /\ pc = "done" /\ interrupts > 0 /\ NoErrors /\ ~skip_input_errors
    /\ result.tag = "Ok" /\ result.total >= 2 /\ reads >= 2

\* the write_all calls of the log that succeeded
OkWrites(log) == {i \in DOMAIN log : log[i].took = Len(log[i].data)}

\* the bytes of the chunks whose write_all succeeded
RECURSIVE OkBytes(_)
OkBytes(log) ==
    IF log = <<>> THEN 0
    ELSE (IF Head(log).took = Len(Head(log).data) THEN Len(Head(log).data) ELSE 0)
            + OkBytes(Tail(log))

\* the chunks whose write_all succeeded, one after the other
RECURSIVE OkData(_)
OkData(log) ==
    IF log = <<>> THEN <<>>
    ELSE (IF Head(log).took = Len(Head(log).data) THEN Head(log).data ELSE <<>>)
            \o OkData(Tail(log))

\* all the chunks handed to write_all, one after the other
RECURSIVE AllData(_)
AllData(log) ==
    IF log = <<>> THEN <<>> ELSE Head(log).data \o AllData(Tail(log))

\* what the sink took of each chunk, one after the other
RECURSIVE TakenData(_)
TakenData(log) ==
    IF log = <<>> THEN <<>>
    ELSE SubSeq(Head(log).data, 1, Head(log).took) \o TakenData(Tail(log))

C16_ProgressChunkingFree ==
    (NoErrors /\ pc \in {"read", "done"})
        => progress = IF line_mode.kind = "Line"
                      THEN CountDelim(SubSeq(input, 1, pos), line_mode.delim)
                      ELSE pos

\* a delimiter is the last byte of a chunk and another the first of the next
C16_Witness ==
    /\ pc = "done" /\ NoErrors /\ line_mode.kind = "Line" /\ reads >= 2
    /\ buf[1] = line_mode.delim
    /\ input[pos - Len(buf)] = line_mode.delim
    /\ progress >= 2

\* C17 as stated: when the loop ends the sink has received exactly the
\* chunks whose write succeeded, one after the other.
C17_Original ==
    pc = "done" => sink = OkData(chunkLog)

\* C17 amended: every chunk obtained from the source is handed to the sink
\* at most once and in order, and the source is not read again for a chunk
\* whose write failed; the sink has received the chunks whose write
\* succeeded and, of each chunk whose write failed, the proper prefix
\* write_all got through before the error, one after the other.
C17_NoReplay ==
    /\ [](AllData(chunkLog) \o (IF pc = "write" THEN buf ELSE <<>>)
            = SubSeq(input, 1, pos))
    /\ [](sink = TakenData(chunkLog))
    /\ [](/\ \A i \in DOMAIN chunkLog : chunkLog[i].took <= Len(chunkLog[i].data)
          /\ Len(chunkLog) - Cardinality(OkWrites(chunkLog)) = writeErrs
          /\ Len(chunkLog) + (IF pc = "write" THEN 1 ELSE 0) = reads)
    /\ [][(last' = "write_error" /\ skip_output_errors)
            => (pc' = "read" /\ pos' = pos /\ Len(sink') < Len(sink) + Len(buf))]_vars

C17_Witness ==
    /\ pc = "done" /\ result.tag = "Ok" /\ skip_output_errors
    /\ writeErrs > 0 /\ written > 0
    /\ Len(sink) > written /\ Len(sink) < Len(input)

\* C18: the loop ends only with Ok(written) at a zero-length read or with
\* the error of a read or write whose skip flag is not set; a run whose
\* source comes to its zero-length read after finitely many chunks,
\* interruptions and errors ends; with skip_input_errors and a source every
\* read of which fails the loop stays at its read and never returns.
C18_Termination ==
    /\ [](pc = "done"
            => \/ last = "read_eof" /\ result = Ok(written)
               \/ last = "read_error" /\ result = Err("read") /\ ~skip_input_errors
               \/ last = "write_error" /\ result = Err("write") /\ ~skip_output_errors)
    /\ [](result.tag # "Pending" <=> pc = "done")
    /\ (~failing) ~> (pc = "done")
    /\ []((failing /\ skip_input_errors)
            => (pc = "read" /\ result = Pending /\ ENABLED ReadError))

C18_Witness ==
    /\ pc = "done" /\ result.tag = "Ok" /\ ~failing
    /\ interrupts > 0 /\ readErrs > 0 /\ writeErrs > 0 /\ reads >= 2

\* C19: at every iteration boundary, in both accounting units and for both
\* skip flags, `written` is the number of bytes of the chunks whose write
\* succeeded; it never decreases, and it changes only by the length of the
\* chunk just written, in the step after the progress.inc that follows the
\* successful write.
C19_RunningTotal ==
    /\ [](pc \in {"read", "done"} => written = OkBytes(chunkLog))
    /\ [][written' >= written]_vars
    /\ [][written' # written
            => (last = "inc" /\ written' = written + Len(buf))]_vars
    /\ [][last' = "inc" => last = "write_ok"]_vars

C19_Witness ==
    /\ pc = "read" /\ line_mode.kind = "Line" /\ skip_output_errors
    /\ last = "add" /\ writeErrs > 0 /\ 0 < written /\ written < pos

\* C20: in one iteration the read comes first, then the write, then the
\* advance; the progress counter moves only in the step after a successful
\* write, so in byte mode the amount advanced never exceeds the bytes of the
\* chunks written to the sink.
C20_ProgressBehindSink ==
    /\ [](line_mode.kind = "Byte"
            => (progress <= OkBytes(chunkLog) /\ progress <= Len(sink)))
    /\ [](advances <= Cardinality(OkWrites(chunkLog)))
    /\ [][progress' # progress => (last = "write_ok" /\ last' = "inc")]_vars
    /\ [][last' \in {"write_ok", "write_error"} => last = "read_ok"]_vars

C20_Witness ==
    /\ line_mode.kind = "Byte" /\ pc = "add" /\ reads >= 2
    /\ progress = Len(sink) /\ progress > written /\ written > 0

----------------------------------------------------------------------------
(* Properties of progress_from_options, checked under SpecTemplate *)

NoneRequested(o) == ~(o.show_timer \/ o.show_bytes \/ o.show_rate \/ o.show_eta)

\* t occurs in s
Contains(s, t) ==
    \E i \in 1..(Len(s) - Len(t) + 1) : SubSeq(s, i, i + Len(t) - 1) = t

\* C9: when none of show_timer, show_bytes, show_rate, show_eta is set, the
\* template is the one fixed default, elapsed time, space-filling bar,
\* percent, position/total, rate and ETA in this order, the position, total
\* and rate placeholders being those of line_mode; it is never the bar
\* segment alone, whatever len and width are.
C9_DefaultTemplate ==
    (tpc = "built" /\ NoneRequested(opts))
        => /\ bar.template =
                IF opts.line_mode
                THEN "{elapsed} {wide_bar} {percent} {pos}/{len} {per_sec} {eta}"
                ELSE "{elapsed} {wide_bar} {percent} {bytes}/{total_bytes} {bytes_per_sec} {eta}"
           /\ bar.template # "{wide_bar} {percent}"
           /\ ~Contains(bar.template, "{bar:")

C9_Witness ==
    /\ tpc = "built" /\ NoneRequested(opts)
    /\ opts.line_mode /\ opts.width.tag = "Some" /\ opts.len.tag = "None"
    /\ Contains(bar.template, "{pos}/{len}")

\* the segments C10 asks for, each with the preference that governs it
C10_Wanted(o) ==
    LET position == IF o.line_mode THEN "{pos}" ELSE "{bytes}"
        total == IF o.line_mode THEN "{len}" ELSE "{total_bytes}"
        rate == IF o.line_mode THEN "{per_sec}" ELSE "{bytes_per_sec}"
        bars == IF o.width.tag = "Some"
                THEN "{bar:" \o ToString(o.width.val) \o "} {percent}"
                ELSE "{wide_bar} {percent}"
        amount == IF o.len.tag = "Some" THEN position \o "/" \o total ELSE position
    IN  << [on |-> o.show_timer, seg |-> "{elapsed_precise}"],
           [on |-> TRUE,         seg |-> bars],
           [on |-> o.show_bytes, seg |-> amount],
           [on |-> o.show_rate,  seg |-> rate],
           [on |-> o.show_eta,   seg |-> "{eta_precise}"] >>

\* t is s[1], s[2], .. separated by single spaces
RECURSIVE IsSpaceJoined(_, _)
IsSpaceJoined(t, s) ==
    IF s = <<>> THEN t = ""
    ELSE IF Len(s) = 1 THEN t = s[1].seg
    ELSE /\ Len(t) > Len(s[1].seg)
         /\ SubSeq(t, 1, Len(s[1].seg) + 1) = s[1].seg \o " "
         /\ IsSpaceJoined(SubSeq(t, Len(s[1].seg) + 2, Len(t)), Tail(s))

C10_IsOn(x) == x.on

\* C10: when at least one of show_timer, show_bytes, show_rate, show_eta is
\* set, the template is the bar-with-percent segment and the segments whose
\* preference is set, joined by single spaces in the order elapsed, bar,
\* amount, rate, ETA; the placeholder of a preference that is not set occurs
\* nowhere in it.
C10_ExplicitSegments ==
    (tpc = "built" /\ ~NoneRequested(opts))
        => /\ IsSpaceJoined(bar.template, SelectSeq(C10_Wanted(opts), C10_IsOn))
           /\ ~opts.show_timer => ~Contains(bar.template, "{elapsed")
           /\ ~opts.show_bytes =>
                \A p \in {"{pos}", "{len}", "{bytes}", "{total_bytes}"} :
                    ~Contains(bar.template, p)
           /\ ~opts.show_rate => ~Contains(bar.template, "per_sec}")
           /\ ~opts.show_eta => ~Contains(bar.template, "{eta")

C10_Witness ==
    /\ tpc = "built"
    /\ opts.len = Some(100) /\ opts.show_eta
    /\ ~opts.show_timer /\ ~opts.show_bytes /\ ~opts.show_rate
    /\ opts.width = None
    /\ bar.template = "{wide_bar} {percent} {eta_precise}"

\* C11: the bar is bounded (bar style, ProgressBar::new with the length) if
\* and only if len is present, and a spinner otherwise; style and counter
\* agree, and two calls that agree on the presence of len agree on both,
\* whatever else they differ in.
C11_BoundedIffTotal ==
    tpc = "built"
        => /\ (bar.style = "default_bar") <=> (opts.len.tag = "Some")
           /\ (bar.style = "default_spinner") <=> (opts.len.tag = "None")
           /\ (bar.counter = "new") <=> (opts.len.tag = "Some")
           /\ (bar.counter = "new_spinner") <=> (opts.len.tag = "None")
           /\ bar.length = opts.len
           /\ \A o \in Options :
                (o.len.tag = opts.len.tag)
                    => /\ progress_from_options(o).style = bar.style
                       /\ progress_from_options(o).counter = bar.counter

C11_Witness ==
    /\ tpc = "built" /\ opts.len.tag = "None" /\ opts.width.tag = "Some"
    /\ opts.show_bytes /\ opts.show_eta /\ opts.line_mode
    /\ bar.style = "default_spinner" /\ bar.counter = "new_spinner"

\* C12 as stated: whenever width is Some(w) the bar segment of the template
\* is the width-qualified one carrying w, and the fill-available-space one is
\* used only when width is absent.
C12_Original ==
    tpc = "built"
        => IF opts.width.tag = "Some"
           THEN /\ Contains(bar.template,
                            "{bar:" \o ToString(opts.width.val) \o "} {percent}")
                /\ ~Contains(bar.template, "{wide_bar}")
           ELSE /\ Contains(bar.template, "{wide_bar} {percent}")
                /\ ~Contains(bar.template, "{bar:")

\* C12 amended: width is honoured whenever it is present and at least one of
\* show_timer, show_bytes, show_rate, show_eta is set, with or without len;
\* when none of them is set the default template has the
\* fill-available-space bar whatever width is.
C12_WidthHonoured ==
    tpc = "built"
        => IF opts.width.tag = "Some" /\ ~NoneRequested(opts)
           THEN /\ Contains(bar.template,
                            "{bar:" \o ToString(opts.width.val) \o "} {percent}")
                /\ ~Contains(bar.template, "{wide_bar}")
           ELSE /\ Contains(bar.template, "{wide_bar} {percent}")
                /\ ~Contains(bar.template, "{bar:")

C12_Witness ==
    /\ tpc = "built" /\ opts.width = Some(40) /\ opts.len.tag = "None"
    /\ opts.show_rate /\ ~opts.show_timer
    /\ SubSeq(bar.template, 1, 18) = "{bar:40} {percent}"

\* every occurrence of from in s replaced by to, left to right
RECURSIVE Replace(_, _, _)
Replace(s, from, to) ==
    IF Len(s) < Len(from) THEN s
    ELSE IF SubSeq(s, 1, Len(from)) = from
         THEN to \o Replace(SubSeq(s, Len(from) + 1, Len(s)), from, to)
         ELSE SubSeq(s, 1, 1) \o Replace(SubSeq(s, 2, Len(s)), from, to)

\* the byte-count placeholders replaced by the item-count ones
ToItems(t) ==
    Replace(Replace(Replace(t, "{bytes_per_sec}", "{per_sec}"),
                    "{total_bytes}", "{len}"),
            "{bytes}", "{pos}")

BytePlaceholders == {"{bytes}", "{total_bytes}", "{bytes_per_sec}"}
ItemPlaceholders == {"{pos}", "{len}", "{per_sec}"}

\* C13: a template has byte-count placeholders only (byte mode) or
\* item-count placeholders only (line mode), never both; and the template
\* of the same preferences with line_mode flipped is this one with the
\* position, total and rate placeholders substituted and nothing else
\* changed, style and counter included.
C13_UnitsExclusive ==
    tpc = "built"
        => LET other == progress_from_options([opts EXCEPT !.line_mode = ~@])
           IN  /\ opts.line_mode
                    => \A p \in BytePlaceholders : ~Contains(bar.template, p)
               /\ ~opts.line_mode
                    => \A p \in ItemPlaceholders : ~Contains(bar.template, p)
               /\ IF opts.line_mode
                  THEN bar.template = ToItems(other.template)
                  ELSE other.template = ToItems(bar.template)
               /\ other.style = bar.style /\ other.counter = bar.counter
               /\ other.length = bar.length

C13_Witness ==
    /\ tpc = "built" /\ opts.line_mode
    /\ opts.show_bytes /\ opts.show_rate /\ opts.len.tag = "Some"
    /\ Contains(bar.template, "{pos}/{len} {per_sec}")

\* C14: with show_bytes the amount segment is position/total when len is
\* present and the position alone when it is absent; in a template built
\* from explicit preferences the total placeholder occurs exactly when
\* show_bytes is set and len is present.
C14_AmountShape ==
    (tpc = "built" /\ ~NoneRequested(opts))
        => LET position == IF opts.line_mode THEN "{pos}" ELSE "{bytes}"
               total == IF opts.line_mode THEN "{len}" ELSE "{total_bytes}"
           IN  /\ (opts.show_bytes /\ opts.len.tag = "Some")
                    => Contains(bar.template, " " \o position \o "/" \o total)
               /\ (opts.show_bytes /\ opts.len.tag = "None")
                    => /\ Contains(bar.template, " " \o position)
                       /\ ~Contains(bar.template, position \o "/")
               /\ Contains(bar.template, total)
                    <=> (opts.show_bytes /\ opts.len.tag = "Some")

C14_Witness ==
    /\ tpc = "built" /\ opts.show_bytes /\ opts.len.tag = "None"
    /\ ~opts.show_timer /\ ~opts.show_rate /\ ~opts.show_eta
    /\ opts.width = None /\ ~opts.line_mode
    /\ bar.template = "{wide_bar} {percent} {bytes}"

====
